---- MODULE Spec2Model ----
(***************************************************************************)
(* Model of the Screentime activity aggregation engine:                    *)
(*   - the filter policy            (utils/dataFilters)                    *)
(*   - the daily aggregator         (app/api/aggregate-daily/route.ts)     *)
(*   - the summary store            (daily_summary table)                  *)
(*   - the period reporter          (analysis page, fetchAnalysis)         *)
(* Dates are day numbers, instants are seconds since day 0, 00:00 UTC.     *)
(* Day 1 is a Monday, so days 1..7 are one Monday-to-Sunday week.          *)
(***************************************************************************)
EXTENDS Integers, Sequences, FiniteSets, TLC

VARIABLES employees, activity_logs, daily_summary, localStorage, settingsPage,
          run, runNo, prevRun, response, runs,
          mounted, tz, viewMode, selectedDate, employeeStats, queried, filtered,
          inflight

(* the tables, the browser's localStorage, the settings page open in a      *)
(* tab, the aggregation request, and the requests of the scheduler and of   *)
(* the page's sync button when they overlap                                 *)
aggVars == <<employees, activity_logs, daily_summary, localStorage, settingsPage,
             run, runNo, prevRun, response, runs>>

(* the viewer's browser: the page it shows, its UTC offset in minutes, the  *)
(* analysis page's state, the tables its last fetch selected from, and the  *)
(* result of a call of filterActivityLogs                                   *)
pageVars == <<mounted, tz, viewMode, selectedDate, employeeStats, queried, filtered,
              inflight>>

vars == <<aggVars, pageVars>>

-----------------------------------------------------------------------------
(* Bounds of the model *)

MaxLogs == 2
MaxRuns == 2
MaxSeedLogs == 3
MaxInflight == 1
MaxOverlap == 2

-----------------------------------------------------------------------------
(* Program constants *)

MAX_DURATION_SECONDS == 7200
MAX_ACTIVITY_DURATION_SECONDS == 2 * 60 * 60
SecondsPerDay == 24 * 3600
IST_OFFSET_SECONDS == 5 * 3600 + 30 * 60

(* null / undefined of the source *)
Null == 0 - 9999999

-----------------------------------------------------------------------------
(* Time *)

(* `${date}T00:00:00+05:30` and `${date}T23:59:59+05:30` as instants *)
startOfDay(date) == date * SecondsPerDay - IST_OFFSET_SECONDS
endOfDay(date) == date * SecondsPerDay + (23 * 3600 + 59 * 60 + 59) - IST_OFFSET_SECONDS

(* The current instant: day 7 (a Sunday), 12:00 in the reporting timezone *)
Now == startOfDay(7) + 12 * 3600

(* new Date().toISOString().split('T')[0] : the UTC calendar date *)
toISODate(t) == t \div SecondsPerDay

-----------------------------------------------------------------------------
(* Data sets the environment draws from *)

EmpA == "e1"
EmpB == "e2"
Ghost == "ghost"
Apps == {"Chrome", "Slack", "Idle"}
TargetDates == {6, 7}

(* start_time is kept as whole seconds and the milliseconds after them *)
Raw(id, e, app, dur, day) ==
    [id |-> id, employee_id |-> e, app_name |-> app, duration_seconds |-> dur,
     start_time |-> startOfDay(day) + 10 * 3600,
     start_ms |-> 0,
     end_time |-> IF dur = Null THEN Null
                  ELSE startOfDay(day) + 10 * 3600 + (IF dur > 0 THEN dur ELSE 0)]

(* a row whose activity started `seconds` later *)
Later(l, seconds) ==
    [l EXCEPT !.start_time = @ + seconds,
              !.end_time = IF @ = Null THEN Null ELSE @ + seconds]

(* The rows the collecting agent may insert into activity_logs, each once, *)
(* in any order; row 2 starts at 09:00 and row 4 at 12:00                  *)
LogChoices ==
    { Raw(1, EmpA, "Chrome", 3600, 7), Later(Raw(2, EmpA, "Slack", 9000, 7), 0 - 3600),
      Raw(3, EmpA, "Slack", 0 - 100, 7), Later(Raw(4, EmpA, "Chrome", Null, 7), 7200),
      Raw(5, EmpA, "Slack", 5400, 6),
      Raw(6, EmpB, "Chrome", 3600, 7),
      Raw(7, Ghost, "Chrome", 3600, 7) }

-----------------------------------------------------------------------------
(* Sequence helpers *)

Range(s) == {s[i] : i \in 1..Len(s)}

(* the rows of a select on activity_logs, in the order of their ids *)
RECURSIVE RowsById(_)
RowsById(rows) ==
    IF rows = {} THEN <<>>
    ELSE LET first == CHOOSE r \in rows : \A q \in rows : r.id <= q.id
         IN <<first>> \o RowsById(rows \ {first})

RECURSIVE SelectSeqBy(_, _)
SelectSeqBy(s, keep) ==
    IF s = <<>> THEN <<>>
    ELSE IF Head(s) \in keep THEN <<Head(s)>> \o SelectSeqBy(Tail(s), keep)
         ELSE SelectSeqBy(Tail(s), keep)

-----------------------------------------------------------------------------
(* Aggregator: app/api/aggregate-daily/route.ts *)

(* .lte('start_time', instant), instant being a whole second: a start_time *)
(* with milliseconds after that second is above it                         *)
lte_start_time(l, instant) ==
    l.start_time < instant \/ (l.start_time = instant /\ l.start_ms = 0)

(* faulty variant: the aggregator leaves out the employees on the exclusion list *)
SelectLogsNotExcluded(logs, emp, targetDate) ==
    RowsById({l \in logs :
        /\ l.employee_id = emp
        /\ emp \notin {localStorage[i] : i \in 1..Len(localStorage)}
        /\ l.start_time >= startOfDay(targetDate)
        /\ lte_start_time(l, endOfDay(targetDate))})

(* .eq('employee_id', emp).gte('start_time', startOfDay).lte('start_time', endOfDay) *)
SelectLogs(logs, emp, targetDate) ==
    RowsById({l \in logs :
        /\ l.employee_id = emp
        /\ l.start_time >= startOfDay(targetDate)
        /\ lte_start_time(l, endOfDay(targetDate))})

(* appMap.set(app, (appMap.get(app) || 0) + duration), insertion ordered *)
RECURSIVE AppMapAdd(_, _, _)
AppMapAdd(appMap, app, duration) ==
    IF appMap = <<>> THEN <<[app |-> app, seconds |-> duration]>>
    ELSE IF Head(appMap).app = app
         THEN <<[app |-> app, seconds |-> Head(appMap).seconds + duration]>> \o Tail(appMap)
         ELSE <<Head(appMap)>> \o AppMapAdd(Tail(appMap), app, duration)

(* faulty variant: the first and last activity are taken before the test  *)
(* that skips a record                                                      *)
RECURSIVE LogLoopTimesOfAll(_, _)
LogLoopTimesOfAll(logs, acc) ==
    IF logs = <<>> THEN acc
    ELSE LET log == Head(logs)
             duration == IF log.duration_seconds = Null \/ log.duration_seconds = 0
                         THEN 0 ELSE log.duration_seconds
             logStartStr == log.start_time
             logEndStr == IF log.end_time = Null THEN log.start_time ELSE log.end_time
             timed == [acc EXCEPT
                        !.firstActivityTime =
                            IF @ = Null \/ logStartStr < @ THEN logStartStr ELSE @,
                        !.lastActivityTime =
                            IF @ = Null \/ logEndStr > @ THEN logEndStr ELSE @]
         IN IF duration > MAX_DURATION_SECONDS
            THEN LogLoopTimesOfAll(Tail(logs), timed)
            ELSE LogLoopTimesOfAll(Tail(logs),
                   [timed EXCEPT
                      !.totalSeconds = @ + duration,
                      !.appMap = IF log.app_name # ""
                                 THEN AppMapAdd(@, log.app_name, duration) ELSE @])

(* the loop `for (const log of logs)` of the route *)
RECURSIVE LogLoop(_, _)
LogLoop(logs, acc) ==
    IF logs = <<>> THEN acc
    ELSE LET log == Head(logs)
             duration == IF log.duration_seconds = Null \/ log.duration_seconds = 0
                         THEN 0 ELSE log.duration_seconds
             logStartStr == log.start_time
             logEndStr == IF log.end_time = Null THEN log.start_time ELSE log.end_time
         IN IF duration > MAX_DURATION_SECONDS
            THEN LogLoop(Tail(logs), acc)
            ELSE LogLoop(Tail(logs),
                   [totalSeconds |-> acc.totalSeconds + duration,
                    firstActivityTime |->
                        IF acc.firstActivityTime = Null \/ logStartStr < acc.firstActivityTime
                        THEN logStartStr ELSE acc.firstActivityTime,
                    lastActivityTime |->
                        IF acc.lastActivityTime = Null \/ logEndStr > acc.lastActivityTime
                        THEN logEndStr ELSE acc.lastActivityTime,
                    appMap |-> IF log.app_name # ""
                               THEN AppMapAdd(acc.appMap, log.app_name, duration)
                               ELSE acc.appMap])

(* the loop `for (const [app, seconds] of appMap.entries())` *)
RECURSIVE TopAppLoop(_, _)
TopAppLoop(appMap, top) ==
    IF appMap = <<>> THEN top
    ELSE IF Head(appMap).seconds > top.topAppSeconds
         THEN TopAppLoop(Tail(appMap),
                         [topApp |-> Head(appMap).app, topAppSeconds |-> Head(appMap).seconds])
         ELSE TopAppLoop(Tail(appMap), top)

(* Math.round(x * 100) / 100 of seconds / 3600, in hundredths of an hour; *)
(* Math.round rounds halves towards +infinity                              *)
RoundHundredths(seconds) == (seconds + 18) \div 36

(* session_count written by the route *)
SessionCount(logs) == Len(logs)

(* The row the route upserts for one employee from the logs it fetched *)
Summarize(emp, targetDate, logs, updatedAt) ==
    LET acc == LogLoop(logs, [totalSeconds |-> 0, firstActivityTime |-> Null,
                              lastActivityTime |-> Null, appMap |-> <<>>])
        top == TopAppLoop(acc.appMap, [topApp |-> "", topAppSeconds |-> 0])
    IN [employee_id |-> emp, date |-> targetDate,
        total_seconds |-> acc.totalSeconds,
        session_count |-> SessionCount(logs),
        first_activity |-> acc.firstActivityTime,
        last_activity |-> acc.lastActivityTime,
        top_app |-> top.topApp,
        top_app_seconds |-> top.topAppSeconds,
        updated_at |-> updatedAt]

(* faulty variant: the conflicting row's counters are added to the new row *)
UpsertAccumulate(table, row) ==
    LET old == {r \in table : r.employee_id = row.employee_id /\ r.date = row.date}
    IN (table \ old) \cup
       {[row EXCEPT !.total_seconds = @ + o.total_seconds,
                    !.session_count = @ + o.session_count] : o \in old} \cup
       (IF old = {} THEN {row} ELSE {})

(* faulty variant: the conflicting row keeps its session_count and top app *)
UpsertMerge(table, row) ==
    LET old == {r \in table : r.employee_id = row.employee_id /\ r.date = row.date}
    IN (table \ old) \cup
       {[row EXCEPT !.session_count = o.session_count,
                    !.top_app = o.top_app] : o \in old} \cup
       (IF old = {} THEN {row} ELSE {})

(* faulty variant: the conflict target is employee_id alone *)
UpsertByEmployee(table, row) ==
    {r \in table : r.employee_id # row.employee_id} \cup {row}

(* faulty variant: a plain insert, no conflict target *)
UpsertInsert(table, row) == table \cup {row}

(* upsert(row, {onConflict: 'employee_id,date'}) on a table with            *)
(* UNIQUE(employee_id, date): the conflicting row is replaced               *)
Upsert(table, row) ==
    {r \in table : ~(r.employee_id = row.employee_id /\ r.date = row.date)} \cup {row}

(* whether the employee of the current loop iteration is skipped *)
SkipsEmployee(logs) == Len(logs) = 0

(* faulty variant: processed counts the employees of the batch *)
ProcessedEmployees(results) == Len(employees)

(* processed: results.length *)
Processed(results) == Len(results)

-----------------------------------------------------------------------------
(* Cap policy: the seed route, the SQL function aggregate_daily_summary and *)
(* the first version of utils/dataFilters                                   *)

(* The rows the collecting agent may insert before a seed or SQL run *)
SeedLogChoices ==
    { Raw(11, EmpA, "Chrome", 3600, 7), Raw(12, EmpA, "Slack", 1800, 7),
      Raw(13, EmpA, "Idle", 9000, 7), Raw(14, EmpA, "Chrome", 7200, 7),
      Raw(15, EmpB, "Slack", 10000, 7), Raw(16, EmpA, "Slack", 0, 6) }

Min(a, b) == IF a <= b THEN a ELSE b

(* seed route: const MAX_DURATION = 7200 *)
MAX_DURATION == 7200

(* seed route: the number of days `for (let daysAgo = 0; daysAgo < 30; ...)` *)
SeedDays == 30

(* seed route: .gte('start_time', `${dateStr}T00:00:00.000Z`)                *)
(*             .lte('start_time', `${dateStr}T23:59:59.999Z`)                *)
SeedSelectLogs(logs, emp, dateStr) ==
    RowsById({l \in logs :
        /\ l.employee_id = emp
        /\ l.start_time >= dateStr * SecondsPerDay
        /\ l.start_time <= dateStr * SecondsPerDay + (SecondsPerDay - 1)})

(* seed route: the loop `for (const log of logs)` *)
RECURSIVE SeedLogLoop(_, _)
SeedLogLoop(logs, acc) ==
    IF logs = <<>> THEN acc
    ELSE LET log == Head(logs)
             cappedDuration == Min(IF log.duration_seconds = Null THEN 0
                                   ELSE log.duration_seconds, MAX_DURATION)
             logStartStr == log.start_time
             logEndStr == IF log.end_time = Null THEN log.start_time ELSE log.end_time
         IN SeedLogLoop(Tail(logs),
               [totalSeconds |-> acc.totalSeconds + cappedDuration,
                firstActivityTime |->
                    IF acc.firstActivityTime = Null \/ logStartStr < acc.firstActivityTime
                    THEN logStartStr ELSE acc.firstActivityTime,
                lastActivityTime |->
                    IF acc.lastActivityTime = Null \/ logEndStr > acc.lastActivityTime
                    THEN logEndStr ELSE acc.lastActivityTime,
                appMap |-> IF log.app_name # ""
                           THEN AppMapAdd(acc.appMap, log.app_name, cappedDuration)
                           ELSE acc.appMap])

(* seed route: the row upserted for one employee and one day *)
SeedSummarize(emp, dateStr, logs, updatedAt) ==
    LET acc == SeedLogLoop(logs, [totalSeconds |-> 0, firstActivityTime |-> Null,
                                  lastActivityTime |-> Null, appMap |-> <<>>])
        top == TopAppLoop(acc.appMap, [topApp |-> "", topAppSeconds |-> 0])
    IN [employee_id |-> emp, date |-> dateStr,
        total_seconds |-> acc.totalSeconds,
        session_count |-> Len(logs),
        first_activity |-> acc.firstActivityTime,
        last_activity |-> acc.lastActivityTime,
        top_app |-> top.topApp,
        top_app_seconds |-> top.topAppSeconds,
        updated_at |-> updatedAt]

(* seed route: `for (const emp of employees)` for one day *)
RECURSIVE SeedEmployeeLoop(_, _, _, _, _)
SeedEmployeeLoop(emps, table, allLogs, dateStr, updatedAt) ==
    IF emps = <<>> THEN table
    ELSE LET logs == SeedSelectLogs(allLogs, Head(emps), dateStr)
         IN SeedEmployeeLoop(Tail(emps),
                IF Len(logs) = 0 THEN table
                ELSE Upsert(table, SeedSummarize(Head(emps), dateStr, logs, updatedAt)),
                allLogs, dateStr, updatedAt)

(* seed route: `for (let daysAgo = 0; daysAgo < 30; daysAgo++)` *)
RECURSIVE SeedDayLoop(_, _, _, _, _)
SeedDayLoop(daysAgo, table, emps, allLogs, updatedAt) ==
    IF daysAgo >= SeedDays THEN table
    ELSE LET dateStr == toISODate(Now) - daysAgo
             after == SeedEmployeeLoop(emps, table, allLogs, dateStr, updatedAt)
         IN IF after = table   \* no employee had a log on that day
            THEN SeedDayLoop(daysAgo + 1, table, emps, allLogs, updatedAt)
            ELSE SeedDayLoop(daysAgo + 1, after, emps, allLogs, updatedAt)

(* faulty variant: a value above the maximum counts as nothing *)
LeastIgnoring(duration_seconds, max_duration) ==
    IF duration_seconds = Null THEN max_duration
    ELSE IF duration_seconds > max_duration THEN 0 ELSE duration_seconds

(* PostgreSQL LEAST(duration_seconds, max_duration): NULL arguments are      *)
(* ignored                                                                   *)
LEAST(duration_seconds, max_duration) ==
    IF duration_seconds = Null THEN max_duration
    ELSE Min(duration_seconds, max_duration)

(* SUM(LEAST(duration_seconds, max_duration)) over a set of rows *)
RECURSIVE SqlSum(_, _)
SqlSum(rows, max_duration) ==
    IF rows = {} THEN 0
    ELSE LET l == CHOOSE x \in rows : TRUE
         IN LEAST(l.duration_seconds, max_duration) + SqlSum(rows \ {l}, max_duration)

(* WHERE employee_id = emp.id AND DATE(start_time) = target_date, the date   *)
(* taken in the database's time zone, UTC                                    *)
SqlSelectLogs(logs, emp, target_date) ==
    {l \in logs : l.employee_id = emp /\ toISODate(l.start_time) = target_date}

(* app_totals: GROUP BY app_name ORDER BY app_seconds DESC LIMIT 1; among    *)
(* equal sums the database may return any; no group: the LEFT JOIN yields    *)
(* NULLs, COALESCEd to '' and 0                                              *)
SqlTopApps(rows, max_duration) ==
    LET totals == {[app_name |-> a,
                    app_seconds |-> SqlSum({l \in rows : l.app_name = a}, max_duration)] :
                   a \in {l.app_name : l \in rows}}
    IN IF totals = {} THEN {[app_name |-> "", app_seconds |-> 0]}
       ELSE {t \in totals : \A u \in totals : t.app_seconds >= u.app_seconds}

(* the row the function inserts for one employee, given the top app chosen *)
SqlRow(emp, target_date, rows, top, max_duration, updatedAt) ==
    [employee_id |-> emp, date |-> target_date,
     total_seconds |-> SqlSum(rows, max_duration),
     session_count |-> Cardinality(rows),
     first_activity |-> IF rows = {} THEN Null
                        ELSE (CHOOSE l \in rows : \A q \in rows :
                                 l.start_time <= q.start_time).start_time,
     last_activity |-> IF rows = {} THEN Null
                       ELSE LET last(l) == IF l.end_time = Null THEN l.start_time
                                           ELSE l.end_time
                            IN last(CHOOSE l \in rows : \A q \in rows : last(l) >= last(q)),
     top_app |-> top.app_name,
     top_app_seconds |-> top.app_seconds,
     updated_at |-> updatedAt]

(* FOR emp IN SELECT id FROM employees LOOP ... INSERT ... ON CONFLICT       *)
(* (employee_id, date) DO UPDATE: the tables the function may leave          *)
RECURSIVE SqlEmployeeLoop(_, _, _, _, _)
SqlEmployeeLoop(emps, tables, allLogs, target_date, updatedAt) ==
    IF emps = <<>> THEN tables
    ELSE LET max_duration == 7200
             rows == SqlSelectLogs(allLogs, Head(emps), target_date)
         IN SqlEmployeeLoop(Tail(emps),
                {Upsert(table, SqlRow(Head(emps), target_date, rows, top,
                                      max_duration, updatedAt)) :
                    table \in tables, top \in SqlTopApps(rows, max_duration)},
                allLogs, target_date, updatedAt)

(* utils/dataFilters, first version: capDuration = Math.min(seconds, MAX) *)
capDuration_cap(seconds) ==
    Min(IF seconds = Null THEN 0 ELSE seconds, MAX_ACTIVITY_DURATION_SECONDS)

(* utils/dataFilters, first version: filterActivityLogs(logs) *)
filterActivityLogs_cap(logs) ==
    LET excludedIds == localStorage
        kept == SelectSeqBy(logs, {log \in Range(logs) :
                    log.employee_id \notin Range(excludedIds)})
    IN [i \in 1..Len(kept) |->
            [kept[i] EXCEPT !.duration_seconds = capDuration_cap(kept[i].duration_seconds)]]

-----------------------------------------------------------------------------
(* Filter policy: utils/dataFilters *)

(* capDuration(seconds): the ignore policy *)
capDuration(seconds) ==
    IF seconds = Null \/ seconds = 0 \/ seconds < 0 THEN 0
    ELSE IF seconds > MAX_ACTIVITY_DURATION_SECONDS THEN 0
    ELSE seconds

(* faulty variant: the list is not read from localStorage *)
getExcludedUserIdsEmpty == <<>>

(* getExcludedUserIds() in the browser *)
getExcludedUserIds == localStorage

(* the optional argument validEmployeeIds?: Set<string> *)
Undefined == [given |-> FALSE, ids |-> {}]
SetArg(ids) == [given |-> TRUE, ids |-> ids]

(* faulty variant: the exclusion list is not consulted *)
filterActivityLogsKeepExcluded(logs, validEmployeeIds) ==
    LET kept == SelectSeqBy(logs, {log \in Range(logs) :
                    ~(validEmployeeIds.given /\ log.employee_id \notin validEmployeeIds.ids)})
    IN [i \in 1..Len(kept) |->
            [kept[i] EXCEPT !.duration_seconds =
                IF @ = Null \/ @ <= 0 \/ @ > MAX_ACTIVITY_DURATION_SECONDS THEN 0 ELSE @]]

(* filterActivityLogs(logs, validEmployeeIds?) *)
filterActivityLogs(logs, validEmployeeIds) ==
    LET excludedIds == getExcludedUserIds
        kept == SelectSeqBy(logs, {log \in Range(logs) :
                    /\ log.employee_id \notin Range(excludedIds)
                    /\ ~(validEmployeeIds.given /\ log.employee_id \notin validEmployeeIds.ids)})
    IN [i \in 1..Len(kept) |->
            [kept[i] EXCEPT !.duration_seconds = capDuration(kept[i].duration_seconds)]]

-----------------------------------------------------------------------------
(* Period reporter: analysis page *)

(* getLocalDateStr(d): the calendar date of instant t in the viewer's zone, *)
(* tzMin minutes east of UTC                                                *)
getLocalDateStr(t, tzMin) == (t + tzMin * 60) \div SecondsPerDay

getTodayStr(tzMin) == getLocalDateStr(Now, tzMin)

(* new Date("YYYY-MM-DD"): a date-only string is parsed as UTC midnight *)
parseDateStr(dateStr) == dateStr * SecondsPerDay

(* subDays(d, n) *)
subDays(t, n) == t - n * SecondsPerDay

(* day 1 is a Monday and the first day of a 28-day month *)
DaysPerMonth == 28
weekStartOf(date) == date - ((date - 1) % 7)
monthStartOf(date) == date - ((date - 1) % DaysPerMonth)

(* getDateRange() *)
getDateRange(mode, selected, tzMin) ==
    LET d == getLocalDateStr(selected, tzMin)
    IN CASE mode = "daily" -> [startStr |-> d, endStr |-> d]
         [] mode = "weekly" -> [startStr |-> weekStartOf(d), endStr |-> weekStartOf(d) + 6]
         [] mode = "monthly" -> [startStr |-> monthStartOf(d),
                                 endStr |-> monthStartOf(d) + DaysPerMonth - 1]

(* array.sort((a, b) => b.totalHours - a.totalHours): stable, descending *)
RECURSIVE InsertDesc(_, _)
InsertDesc(sorted, x) ==
    IF sorted = <<>> THEN <<x>>
    ELSE IF Head(sorted).totalHours >= x.totalHours
         THEN <<Head(sorted)>> \o InsertDesc(Tail(sorted), x)
         ELSE <<x>> \o sorted

RECURSIVE SortDesc(_)
SortDesc(stats) ==
    IF stats = <<>> THEN <<>>
    ELSE InsertDesc(SortDesc(SubSeq(stats, 1, Len(stats) - 1)), stats[Len(stats)])

(* index of the entry of id in a Map kept as an insertion-ordered sequence *)
RECURSIVE IndexOfId(_, _, _)
IndexOfId(entries, id, i) ==
    IF i > Len(entries) THEN 0
    ELSE IF entries[i].id = id THEN i ELSE IndexOfId(entries, id, i + 1)

(* fetchTodayLive: the loop over today's logs *)
RECURSIVE LiveLoop(_, _, _, _)
LiveLoop(logs, employeeIds, excludedIds, empData) ==
    IF logs = <<>> THEN empData
    ELSE LET log == Head(logs)
             k == IndexOfId(empData, log.employee_id, 1)
             emp == IF k = 0 THEN [id |-> log.employee_id, seconds |-> 0,
                                   sessions |-> 0, apps |-> <<>>]
                    ELSE empData[k]
             cappedDuration == capDuration(IF log.duration_seconds = Null THEN 0
                                           ELSE log.duration_seconds)
             upd == [emp EXCEPT !.seconds = @ + cappedDuration,
                                !.sessions = @ + 1,
                                !.apps = IF log.app_name # ""
                                         THEN AppMapAdd(@, log.app_name, cappedDuration)
                                         ELSE @]
         IN IF log.employee_id \notin employeeIds
               THEN LiveLoop(Tail(logs), employeeIds, excludedIds, empData)
            ELSE IF log.employee_id \in Range(excludedIds)
               THEN LiveLoop(Tail(logs), employeeIds, excludedIds, empData)
            ELSE LiveLoop(Tail(logs), employeeIds, excludedIds,
                          IF k = 0 THEN Append(empData, upd)
                          ELSE [empData EXCEPT ![k] = upd])

(* fetchTodayLive(employeeIds, excludedIds, empNameMap) *)
fetchTodayLive(allLogs, employeeIds, excludedIds, tzMin) ==
    LET todayStr == getTodayStr(tzMin)
        logs == RowsById({l \in allLogs :
                    /\ l.start_time >= startOfDay(todayStr)
                    /\ lte_start_time(l, endOfDay(todayStr))})
        empData == LiveLoop(logs, employeeIds, excludedIds, <<>>)
    IN SortDesc([i \in 1..Len(empData) |->
            [id |-> empData[i].id,
             totalHours |-> RoundHundredths(empData[i].seconds),
             sessionCount |-> empData[i].sessions,
             dailyBreakdown |-> <<[date |-> todayStr,
                                   hours |-> RoundHundredths(empData[i].seconds)]>>,
             topApp |-> TopAppLoop(empData[i].apps,
                                   [topApp |-> "", topAppSeconds |-> 0]).topApp]])

(* fetchAnalysis: the loop over the stored summaries *)
RECURSIVE HistoricalLoop(_, _, _, _)
HistoricalLoop(summaries, validEmployeeIds, excludedIds, empData) ==
    IF summaries = <<>> THEN empData
    ELSE LET s == Head(summaries)
             k == IndexOfId(empData, s.employee_id, 1)
             emp == IF k = 0 THEN [id |-> s.employee_id, seconds |-> 0,
                                   sessions |-> 0, topApp |-> ""]
                    ELSE empData[k]
             upd == [emp EXCEPT !.seconds = @ + s.total_seconds,
                                !.sessions = @ + s.session_count,
                                !.topApp = IF s.top_app # "" THEN s.top_app ELSE @]
         IN IF s.employee_id \notin validEmployeeIds
               THEN HistoricalLoop(Tail(summaries), validEmployeeIds, excludedIds, empData)
            ELSE IF s.employee_id \in Range(excludedIds)
               THEN HistoricalLoop(Tail(summaries), validEmployeeIds, excludedIds, empData)
            ELSE HistoricalLoop(Tail(summaries), validEmployeeIds, excludedIds,
                                IF k = 0 THEN Append(empData, upd)
                                ELSE [empData EXCEPT ![k] = upd])

(* fetchAnalysis: merge of the live slice into the historical stats *)
RECURSIVE MergeLive(_, _)
MergeLive(allStats, liveStats) ==
    IF liveStats = <<>> THEN allStats
    ELSE LET live == Head(liveStats)
             k == IndexOfId(allStats, live.id, 1)
         IN IF k # 0
            THEN MergeLive([allStats EXCEPT ![k] =
                               [@ EXCEPT !.totalHours = @ + live.totalHours,
                                         !.sessionCount = @ + live.sessionCount,
                                         !.topApp = IF live.topApp # "" THEN live.topApp
                                                    ELSE @]],
                           Tail(liveStats))
            ELSE MergeLive(Append(allStats, live), Tail(liveStats))

(* historicalEndStr *)
historicalEnd(needsTodayLive, todayStr, endStr, tzMin) ==
    IF needsTodayLive
    THEN getLocalDateStr(subDays(parseDateStr(todayStr), 1), tzMin)
    ELSE endStr

(* .from('daily_summary').gte('date', startStr).lte('date', historicalEndStr) *)
SummariesInRange(table, startStr, endStr) ==
    {r \in table : r.date >= startStr /\ r.date <= endStr}

(* the orders in which a query may return a set of rows *)
RowOrders(rows) ==
    {o \in [1..Cardinality(rows) -> rows] : {o[i] : i \in 1..Cardinality(rows)} = rows}

(* fetchAnalysis() from line 632 on, with the excludedIds it read: the      *)
(* stats it hands to setEmployeeStats, given the order in which the         *)
(* summary query returned its rows                                          *)
fetchAnalysisFrom(mode, selected, tzMin, summaries, excludedIds) ==
    LET range == getDateRange(mode, selected, tzMin)
        startStr == range.startStr
        endStr == range.endStr
        todayStr == getTodayStr(tzMin)
        validEmployeeIds == Range(employees)
        needsTodayLive == startStr <= todayStr /\ endStr >= todayStr
        historicalEndStr == historicalEnd(needsTodayLive, todayStr, endStr, tzMin)
        empData == HistoricalLoop(summaries, validEmployeeIds, excludedIds, <<>>)
        historical == IF startStr <= historicalEndStr
                      THEN [i \in 1..Len(empData) |->
                              [id |-> empData[i].id,
                               totalHours |-> RoundHundredths(empData[i].seconds),
                               sessionCount |-> empData[i].sessions,
                               dailyBreakdown |-> <<>>,
                               topApp |-> empData[i].topApp]]
                      ELSE <<>>
        liveStats == fetchTodayLive(activity_logs, validEmployeeIds, excludedIds, tzMin)
        merged == IF needsTodayLive THEN MergeLive(historical, liveStats) ELSE historical
    IN IF mode = "daily" /\ startStr = todayStr
       THEN liveStats
       ELSE SortDesc([i \in 1..Len(merged) |->
                [merged[i] EXCEPT !.dailyBreakdown =
                    [j \in 1..(endStr - startStr + 1) |->
                        [date |-> startStr + j - 1, hours |-> 0]]]])

(* fetchAnalysis(), the tables being at rest while it runs *)
fetchAnalysis(mode, selected, tzMin, summaries) ==
    fetchAnalysisFrom(mode, selected, tzMin, summaries, getExcludedUserIds)

(* the tables fetchAnalysis() and the fetchTodayLive() it calls select from *)
queriedTables(mode, selected, tzMin) ==
    LET range == getDateRange(mode, selected, tzMin)
        todayStr == getTodayStr(tzMin)
        needsTodayLive == range.startStr <= todayStr /\ range.endStr >= todayStr
        historicalEndStr == historicalEnd(needsTodayLive, todayStr, range.endStr, tzMin)
    IN IF mode = "daily" /\ range.startStr = todayStr
       THEN {"employees", "activity_logs"}
       ELSE {"employees"}
            \cup (IF range.startStr <= historicalEndStr THEN {"daily_summary"} ELSE {})
            \cup (IF needsTodayLive THEN {"activity_logs"} ELSE {})

(* faulty variant: the report upserts its live slice into the store *)
StoreAfterReportPersisted(table, stats, todayStr) ==
    {r \in table : ~(r.date = todayStr /\ \E i \in 1..Len(stats) : stats[i].id = r.employee_id)}
    \cup {[employee_id |-> stats[i].id, date |-> todayStr,
           total_seconds |-> 36 * stats[i].totalHours,
           session_count |-> stats[i].sessionCount,
           first_activity |-> Null, last_activity |-> Null,
           top_app |-> stats[i].topApp, top_app_seconds |-> 0,
           updated_at |-> 0] : i \in 1..Len(stats)}

(* daily_summary after fetchAnalysis(): the page only selects from it *)
StoreAfterReport(table, stats, todayStr) == table

(* the rows the summary query of fetchAnalysis selects *)
fetchedSummaries(mode, selected, tzMin) ==
    LET range == getDateRange(mode, selected, tzMin)
        todayStr == getTodayStr(tzMin)
        needsTodayLive == range.startStr <= todayStr /\ range.endStr >= todayStr
    IN SummariesInRange(daily_summary, range.startStr,
                        historicalEnd(needsTodayLive, todayStr, range.endStr, tzMin))

-----------------------------------------------------------------------------
(* State machine *)

Idle == [pc |-> "idle", targetDate |-> 0, emps |-> <<>>, i |-> 0,
         results |-> <<>>, failed |-> {}, skipped |-> {}, wrote |-> {},
         overwrote |-> {}, startLen |-> 0]

NoResponse == [status |-> 0]

(* history: the rows the previous run left for its date, kept while that    *)
(* run was free of errors and the raw records have not changed since it     *)
(* started                                                                  *)
NoPrevRun == [date |-> 0, clean |-> FALSE, rows |-> {}]

NotFiltered == [withSet |-> FALSE, out |-> <<>>]

(* the two callers of the route that may overlap: the scheduler (GET) and   *)
(* the analysis page's syncToday                                            *)
RunIds == {"cron", "sync"}

NoPending == [employee_id |-> "", date |-> 0]

(* a request of a caller; history: overlapped, whether the other request    *)
(* was in progress at some instant of this one                              *)
IdleRun == [pc |-> "idle", targetDate |-> 0, emps |-> <<>>, i |-> 0,
            pending |-> NoPending, results |-> <<>>, stamp |-> 0,
            overlapped |-> FALSE]

NoRuns == [id \in RunIds |-> IdleRun]

(* UTC offsets of the viewers' browsers, in minutes *)
ViewerOffsets == {330, 0 - 300, 0 - 480}

(* the settings page is not open *)
NoSettingsPage == [mounted |-> FALSE, excludedIds |-> <<>>]

InitTables ==
    /\ employees = <<EmpA, EmpB>>
    /\ activity_logs = {}
    /\ daily_summary = {}
    /\ localStorage = <<>>
    /\ settingsPage = NoSettingsPage
    /\ run = Idle
    /\ runNo = 0
    /\ prevRun = NoPrevRun
    /\ response = NoResponse
    /\ runs = NoRuns

InitPage ==
    /\ mounted = "none"
    /\ tz = 330
    /\ viewMode = "daily"
    /\ selectedDate = Now
    /\ employeeStats = <<>>
    /\ queried = {}
    /\ filtered = NotFiltered
    /\ inflight = {}

Init ==
    /\ InitTables
    /\ InitPage

(* the collecting agent appends one raw record *)
AppendLog ==
    /\ Cardinality(activity_logs) < MaxLogs
    /\ \E l \in LogChoices \ activity_logs : activity_logs' = activity_logs \cup {l}
    /\ UNCHANGED <<employees, daily_summary, localStorage, settingsPage, run, runNo, prevRun, response, runs>>
    /\ UNCHANGED pageVars

RowsOf(table, date) == {r \in table : r.date = date}

(* updated_at aside *)
Content(rows) == {[r EXCEPT !.updated_at = 0] : r \in rows}

(* faulty variant: an error ends the loop *)
AfterErrorAbort(r, emp) == [r EXCEPT !.i = Len(r.emps) + 1, !.failed = @ \cup {emp}]

(* the loop goes on with the next employee after a fetch or upsert error *)
AfterError(r, emp) == [r EXCEPT !.i = @ + 1, !.failed = @ \cup {emp}]

(* the instants at which a trigger may be handled: 12:00 and 02:00 of day 7 *)
(* in the reporting timezone                                               *)
RequestInstants == {Now, startOfDay(7) + 2 * 3600}

(* POST, lines 9-32, handled at instant t: read the body and the employees; *)
(* empError: the employees query returns an error                           *)
POST_Request(body, t, empError) ==
    /\ run.pc \in {"idle", "done"}
    /\ runNo < MaxRuns
    /\ LET targetDate == IF body = Null THEN toISODate(t) ELSE body
        IN IF empError
           THEN /\ response' = [status |-> 500]
                /\ run' = [Idle EXCEPT !.pc = "done", !.targetDate = targetDate,
                                       !.startLen = Cardinality(activity_logs)]
           ELSE IF Len(employees) = 0
           THEN /\ response' = [status |-> 200, message |-> "No employees found"]
                /\ run' = [Idle EXCEPT !.pc = "done", !.targetDate = targetDate,
                                       !.startLen = Cardinality(activity_logs)]
           ELSE /\ response' = NoResponse
                /\ run' = [Idle EXCEPT !.pc = "loop", !.targetDate = targetDate,
                                       !.emps = employees, !.i = 1,
                                       !.startLen = Cardinality(activity_logs)]
    /\ runNo' = runNo + 1
    /\ prevRun' = IF /\ run.pc = "done"
                     /\ run.failed = {}
                     /\ response.status = 200
                     /\ run.startLen = Cardinality(activity_logs)
                  THEN [date |-> run.targetDate, clean |-> TRUE,
                        rows |-> Content(RowsOf(daily_summary, run.targetDate))]
                  ELSE NoPrevRun
    /\ UNCHANGED <<employees, activity_logs, daily_summary, localStorage, settingsPage, runs>>
    /\ UNCHANGED pageVars

(* POST with a body naming a date or without one; errs are the outcomes the *)
(* database calls may have (TRUE: an error is returned)                     *)
POST_Begin(errs) ==
    \E body \in TargetDates \cup {Null}, t \in RequestInstants, empError \in errs :
        POST_Request(body, t, empError)

(* GET: POST with { date: today }, today being the UTC date of new Date() *)
GET(errs) ==
    \E t \in RequestInstants, empError \in errs :
        LET today == toISODate(t)
        IN POST_Request(today, t, empError)

(* employee_id REFERENCES employees(id): a row of an employee that is no    *)
(* longer in employees is rejected                                          *)
ForeignKeyViolation(table, emp) == emp \notin Range(table)

(* POST, lines 34-117: one iteration of `for (const emp of employees)` *)
POST_Employee(errs) ==
    /\ run.pc = "loop"
    /\ run.i <= Len(run.emps)
    /\ \E logError \in errs, upsertError \in errs :
        LET emp == run.emps[run.i]
            logs == SelectLogs(activity_logs, emp, run.targetDate)
            row == Summarize(emp, run.targetDate, logs, runNo)
        IN IF logError
           THEN /\ ~upsertError
                /\ run' = AfterError(run, emp)
                /\ UNCHANGED daily_summary
           ELSE IF SkipsEmployee(logs)
           THEN /\ ~upsertError
                /\ run' = [run EXCEPT !.i = @ + 1, !.skipped = @ \cup {emp}]
                /\ UNCHANGED daily_summary
           ELSE IF upsertError \/ ForeignKeyViolation(employees, emp)
           THEN /\ run' = AfterError(run, emp)
                /\ UNCHANGED daily_summary
           ELSE /\ daily_summary' = Upsert(daily_summary, row)
                /\ run' = [run EXCEPT !.i = @ + 1, !.wrote = @ \cup {emp},
                              !.overwrote = IF \E r \in daily_summary :
                                                 /\ r.employee_id = emp
                                                 /\ r.date = run.targetDate
                                                 /\ Content({r}) # Content({row})
                                            THEN @ \cup {emp} ELSE @,
                              !.results = Append(@,
                                  [employee |-> emp, date |-> run.targetDate,
                                   totalHours |-> RoundHundredths(row.total_seconds),
                                   sessions |-> SessionCount(logs)])]
    /\ UNCHANGED <<employees, activity_logs, localStorage, settingsPage, runNo, prevRun, response, runs>>
    /\ UNCHANGED pageVars

(* POST, lines 119-124: the response after the loop *)
POST_Respond ==
    /\ run.pc = "loop"
    /\ run.i > Len(run.emps)
    /\ response' = [status |-> 200, success |-> TRUE, date |-> run.targetDate,
                    processed |-> Processed(run.results), results |-> run.results]
    /\ run' = [run EXCEPT !.pc = "done"]
    /\ UNCHANGED <<employees, activity_logs, daily_summary, localStorage, settingsPage, runNo, prevRun, runs>>
    /\ UNCHANGED pageVars

(* ids an administrator may put on the exclusion list *)
ExcludeChoices == {EmpA, Ghost}

(* addExcludedUserId(id) *)
Call_addExcludedUserId(id) ==
    /\ localStorage' = IF id \in Range(getExcludedUserIds) THEN localStorage
                       ELSE Append(getExcludedUserIds, id)
    /\ UNCHANGED <<employees, activity_logs, daily_summary, settingsPage,
                   run, runNo, prevRun, response, runs>>
    /\ UNCHANGED pageVars

addExcludedUserId == \E id \in ExcludeChoices : Call_addExcludedUserId(id)

(* removeExcludedUserId(id) *)
Call_removeExcludedUserId(id) ==
    /\ localStorage' = SelectSeqBy(getExcludedUserIds, Range(getExcludedUserIds) \ {id})
    /\ UNCHANGED <<employees, activity_logs, daily_summary, settingsPage,
                   run, runNo, prevRun, response, runs>>
    /\ UNCHANGED pageVars

removeExcludedUserId == \E id \in ExcludeChoices : Call_removeExcludedUserId(id)

(* the password the settings page asks for, and a wrong one *)
Passwords == {"JOY123", "wrong"}

(* employee_id REFERENCES employees(id) ON DELETE CASCADE: the rows of      *)
(* daily_summary that go with a deleted employee                            *)
DeleteCascade(table, id) == {r \in table : r.employee_id # id}

(* settings page, handleDelete(): delete the employee deleteId *)
handleDelete(errs) ==
    /\ \E deleteId \in Range(employees), password \in Passwords, error \in errs :
        IF password # "JOY123" \/ error
        THEN UNCHANGED <<employees, daily_summary>>
        ELSE /\ employees' = SelectSeqBy(employees, Range(employees) \ {deleteId})
             /\ daily_summary' = DeleteCascade(daily_summary, deleteId)
    /\ UNCHANGED <<activity_logs, localStorage, settingsPage, run, runNo, prevRun, response, runs>>
    /\ UNCHANGED pageVars

(* instants the page's selectedDate may hold: now, or a day back *)
SelectedChoices == {Now, subDays(Now, 1)}
ViewModes == {"daily", "weekly", "monthly"}

(* a viewer opens the analysis page: useState initial values, then the      *)
(* effect runs fetchAnalysis()                                              *)
AnalysisPage_mount(offsets) ==
    /\ mounted = "none"
    /\ mounted' = "analysis"
    /\ \E tzMin \in offsets :
        /\ tz' = tzMin
        /\ \E summaries \in RowOrders(fetchedSummaries("daily", Now, tzMin)) :
             employeeStats' = fetchAnalysis("daily", Now, tzMin, summaries)
        /\ queried' = queriedTables("daily", Now, tzMin)
        /\ daily_summary' = StoreAfterReport(daily_summary, employeeStats', getTodayStr(tzMin))
    /\ UNCHANGED <<viewMode, selectedDate, filtered, inflight>>
    /\ UNCHANGED <<employees, activity_logs, localStorage, settingsPage, run, runNo, prevRun, response, runs>>

(* the view mode or the date is set (or the refresh fires): the effect runs *)
(* fetchAnalysis() and setEmployeeStats replaces the stats                  *)
AnalysisPage_fetchAnalysis ==
    /\ mounted = "analysis"
    /\ \E mode \in ViewModes, selected \in SelectedChoices :
        /\ viewMode' = mode
        /\ selectedDate' = selected
        /\ \E summaries \in RowOrders(fetchedSummaries(mode, selected, tz)) :
             employeeStats' = fetchAnalysis(mode, selected, tz, summaries)
        /\ queried' = queriedTables(mode, selected, tz)
        /\ daily_summary' = StoreAfterReport(daily_summary, employeeStats', getTodayStr(tz))
    /\ UNCHANGED <<mounted, tz, filtered, inflight>>
    /\ UNCHANGED <<employees, activity_logs, localStorage, settingsPage, run, runNo, prevRun, response, runs>>

(* a caller applies filterActivityLogs to the raw records, with or without  *)
(* the set of valid employee ids                                            *)
Call_filterActivityLogs ==
    /\ mounted = "none"
    /\ mounted' = "caller"
    /\ \E withSet \in BOOLEAN :
        filtered' = [withSet |-> withSet,
                     out |-> filterActivityLogs(RowsById(activity_logs),
                                 IF withSet THEN SetArg(Range(employees))
                                 ELSE Undefined)]
    /\ UNCHANGED <<tz, viewMode, selectedDate, employeeStats, queried, inflight>>
    /\ UNCHANGED aggVars

(* the page is left: its state is dropped *)
Unmount ==
    /\ mounted # "none"
    /\ mounted' = "none"
    /\ tz' = 330
    /\ viewMode' = "daily"
    /\ selectedDate' = Now
    /\ employeeStats' = <<>>
    /\ queried' = {}
    /\ filtered' = NotFiltered
    /\ inflight' = {}
    /\ UNCHANGED aggVars

Next ==
    \/ AppendLog
    \/ POST_Begin(BOOLEAN)
    \/ GET(BOOLEAN)
    \/ POST_Employee(BOOLEAN)
    \/ POST_Respond
    \/ addExcludedUserId
    \/ removeExcludedUserId

Spec == Init /\ [][Next]_vars

(* The reporter next to the aggregator.  The database calls succeed, a page *)
(* is opened between aggregation requests, and the tables and the exclusion *)
(* list are at rest while it is shown.                                      *)
NextReport ==
    \/ mounted = "none" /\ AppendLog
    \/ mounted = "none" /\ POST_Begin({FALSE})
    \/ mounted = "none" /\ GET({FALSE})
    \/ mounted = "none" /\ POST_Employee({FALSE})
    \/ mounted = "none" /\ POST_Respond
    \/ mounted = "none" /\ addExcludedUserId
    \/ mounted = "none" /\ removeExcludedUserId
    \/ run.pc # "loop" /\ AnalysisPage_mount(ViewerOffsets)
    \/ AnalysisPage_fetchAnalysis
    \/ run.pc # "loop" /\ Call_filterActivityLogs
    \/ Unmount

SpecReport == Init /\ [][NextReport]_vars

(* the collecting agent appends one raw record before a seed or SQL run *)
AppendSeedLog ==
    /\ Cardinality(activity_logs) < MaxSeedLogs
    /\ \E l \in SeedLogChoices \ activity_logs : activity_logs' = activity_logs \cup {l}
    /\ UNCHANGED <<employees, daily_summary, localStorage, settingsPage, run, runNo, prevRun, response, runs>>
    /\ UNCHANGED pageVars

(* seed route, POST: aggregate the logs of the last 30 days *)
Seed_POST ==
    /\ runNo < MaxRuns
    /\ runNo' = runNo + 1
    /\ daily_summary' = SeedDayLoop(0, daily_summary, employees, activity_logs, runNo')
    /\ UNCHANGED <<employees, activity_logs, localStorage, settingsPage, run, prevRun, response, runs>>
    /\ UNCHANGED pageVars

(* SELECT aggregate_daily_summary(target_date) *)
aggregate_daily_summary ==
    /\ runNo < MaxRuns
    /\ runNo' = runNo + 1
    /\ \E target_date \in TargetDates :
         daily_summary' \in SqlEmployeeLoop(employees, {daily_summary}, activity_logs,
                                            target_date, runNo')
    /\ UNCHANGED <<employees, activity_logs, localStorage, settingsPage, run, prevRun, response, runs>>
    /\ UNCHANGED pageVars

(* a caller applies the first version of filterActivityLogs to the records *)
Call_filterActivityLogs_cap ==
    /\ mounted = "none"
    /\ mounted' = "caller"
    /\ filtered' = [withSet |-> FALSE,
                    out |-> filterActivityLogs_cap(RowsById(activity_logs))]
    /\ UNCHANGED <<tz, viewMode, selectedDate, employeeStats, queried, inflight>>
    /\ UNCHANGED aggVars

(* The cap policy: the seed route, the SQL function and the first filter *)
NextCap ==
    \/ AppendSeedLog
    \/ Seed_POST
    \/ aggregate_daily_summary
    \/ Call_filterActivityLogs_cap
    \/ Unmount

SpecCap == Init /\ [][NextCap]_vars

(* A store in which the run for day 6 has been made, and today's records *)
InitFresh ==
    /\ employees = <<EmpA, EmpB>>
    /\ activity_logs = {Raw(1, EmpA, "Chrome", 3600, 7), Raw(5, EmpA, "Slack", 5400, 6),
                        Raw(6, EmpB, "Chrome", 3600, 7)}
    /\ daily_summary = {Summarize(EmpA, 6, <<Raw(5, EmpA, "Slack", 5400, 6)>>, 1)}
    /\ localStorage = <<>>
    /\ settingsPage = NoSettingsPage
    /\ run = Idle
    /\ runNo = 1
    /\ prevRun = NoPrevRun
    /\ response = NoResponse
    /\ runs = NoRuns
    /\ InitPage

(* a fetchAnalysis() call in flight, awaiting its employees query: the view *)
(* mode and date of its render; history: the list persisted at the call    *)
Request(mode, selected) ==
    [mode |-> mode, selected |-> selected, awaiting |-> "employees",
     excludedIds |-> <<>>, atCall |-> localStorage, atRead |-> <<>>]

(* the page is opened: the effect calls fetchAnalysis(), which reads the    *)
(* exclusion list and awaits its queries                                    *)
AnalysisPage_open(offsets) ==
    /\ mounted = "none"
    /\ mounted' = "analysis"
    /\ \E tzMin \in offsets : tz' = tzMin
    /\ inflight' = {Request("daily", Now)}
    /\ UNCHANGED <<viewMode, selectedDate, employeeStats, queried, filtered>>
    /\ UNCHANGED aggVars

(* the view mode or the date is set, or the refresh fires: the effect calls *)
(* fetchAnalysis()                                                          *)
fetchAnalysis_callWithin(max) ==
    /\ mounted = "analysis"
    /\ Cardinality(inflight) < max
    /\ \E mode \in ViewModes, selected \in SelectedChoices :
        /\ viewMode' = mode
        /\ selectedDate' = selected
        /\ inflight' = inflight \cup {Request(mode, selected)}
    /\ UNCHANGED <<mounted, tz, employeeStats, queried, filtered>>
    /\ UNCHANGED aggVars

fetchAnalysis_call == fetchAnalysis_callWithin(MaxInflight)

(* lines 621-629: the employees query of a call resolves and the call reads *)
(* the exclusion list; history: the list persisted at that read             *)
fetchAnalysis_readExcluded ==
    /\ mounted = "analysis"
    /\ \E q \in inflight :
        /\ q.awaiting = "employees"
        /\ inflight' = (inflight \ {q}) \cup
                         {[q EXCEPT !.awaiting = "queries",
                                    !.excludedIds = getExcludedUserIds,
                                    !.atRead = localStorage]}
    /\ UNCHANGED <<mounted, tz, viewMode, selectedDate, employeeStats, queried, filtered>>
    /\ UNCHANGED aggVars

(* the remaining queries of a call in flight resolve: setEmployeeStats *)
fetchAnalysis_resolve ==
    /\ mounted = "analysis"
    /\ \E q \in inflight :
        /\ q.awaiting = "queries"
        /\ inflight' = inflight \ {q}
        /\ \E summaries \in RowOrders(fetchedSummaries(q.mode, q.selected, tz)) :
             employeeStats' = fetchAnalysisFrom(q.mode, q.selected, tz, summaries,
                                                q.excludedIds)
        /\ queried' = queriedTables(q.mode, q.selected, tz)
    /\ UNCHANGED <<mounted, tz, viewMode, selectedDate, filtered>>
    /\ UNCHANGED aggVars

(* The reporter next to the exclusion list: adds and removes interleave     *)
(* with the page's fetches; the tables are at rest                          *)
NextFresh ==
    \/ addExcludedUserId
    \/ removeExcludedUserId
    \/ AnalysisPage_open({330})
    \/ fetchAnalysis_call
    \/ fetchAnalysis_readExcluded
    \/ fetchAnalysis_resolve
    \/ Unmount

SpecFresh == InitFresh /\ [][NextFresh]_vars

(* the date a caller asks for: GET's today, syncToday's getTodayStr(), both *)
(* at the current instant, the page's browser being in the reporting zone   *)
RequestedDate(id) ==
    IF id = "cron" THEN toISODate(Now) ELSE getTodayStr(330)

(* POST, lines 9-32, for one of two callers *)
Route_Begin(id) ==
    /\ runs[id].pc \in {"idle", "done"}
    /\ runNo < MaxRuns
    /\ runNo' = runNo + 1
    /\ LET busy == \E other \in RunIds \ {id} : runs[other].pc \in {"read", "write"}
       IN runs' = [x \in RunIds |->
                     IF x = id
                     THEN [IdleRun EXCEPT !.pc = "read", !.targetDate = RequestedDate(id),
                                          !.emps = employees, !.i = 1,
                                          !.stamp = runNo', !.overlapped = busy]
                     ELSE [runs[x] EXCEPT !.overlapped = @ \/ runs[x].pc \in {"read", "write"}]]
    /\ UNCHANGED <<employees, activity_logs, daily_summary, localStorage, settingsPage,
                   run, prevRun, response>>
    /\ UNCHANGED pageVars

(* POST, lines 36-88: the select of the employee's logs resolves and the    *)
(* summary is computed                                                      *)
Route_Read(id) ==
    /\ runs[id].pc = "read"
    /\ runs[id].i <= Len(runs[id].emps)
    /\ LET r == runs[id]
           emp == r.emps[r.i]
           logs == SelectLogs(activity_logs, emp, r.targetDate)
       IN runs' = [runs EXCEPT ![id] =
                     IF SkipsEmployee(logs) THEN [r EXCEPT !.i = @ + 1]
                     ELSE [r EXCEPT !.pc = "write",
                                    !.pending = Summarize(emp, r.targetDate, logs, r.stamp)]]
    /\ UNCHANGED <<employees, activity_logs, daily_summary, localStorage, settingsPage,
                   run, runNo, prevRun, response>>
    /\ UNCHANGED pageVars

(* POST, lines 90-116: the upsert of the computed summary *)
Route_Write(id) ==
    /\ runs[id].pc = "write"
    /\ LET r == runs[id]
       IN /\ daily_summary' = Upsert(daily_summary, r.pending)
          /\ runs' = [runs EXCEPT ![id] =
                [r EXCEPT !.pc = "read", !.i = @ + 1, !.pending = NoPending,
                          !.results = Append(@,
                              [employee |-> r.pending.employee_id, date |-> r.targetDate,
                               totalHours |-> RoundHundredths(r.pending.total_seconds),
                               sessions |-> r.pending.session_count])]]
    /\ UNCHANGED <<employees, activity_logs, localStorage, settingsPage, run, runNo, prevRun, response>>
    /\ UNCHANGED pageVars

(* POST, lines 119-124: the response after the loop *)
Route_Respond(id) ==
    /\ runs[id].pc = "read"
    /\ runs[id].i > Len(runs[id].emps)
    /\ runs' = [runs EXCEPT ![id].pc = "done"]
    /\ UNCHANGED <<employees, activity_logs, daily_summary, localStorage, settingsPage,
                   run, runNo, prevRun, response>>
    /\ UNCHANGED pageVars

(* Two callers of the route for the same date, their steps interleaved *)
NextOverlap ==
    \/ AppendLog
    \/ \E id \in RunIds : Route_Begin(id)
    \/ \E id \in RunIds : Route_Read(id)
    \/ \E id \in RunIds : Route_Write(id)
    \/ \E id \in RunIds : Route_Respond(id)

SpecOverlap == Init /\ [][NextOverlap]_vars

(* The aggregator next to the settings page's deletion of employees *)
NextAdmin ==
    \/ AppendLog
    \/ POST_Begin({FALSE})
    \/ GET({FALSE})
    \/ POST_Employee({FALSE})
    \/ POST_Respond
    \/ handleDelete(BOOLEAN)

SpecAdmin == Init /\ [][NextAdmin]_vars

(* The earlier analysis page, which reads only daily_summary and formats    *)
(* its dates with toISOString()                                             *)

(* local 00:00:00 and 23:59:59 of a calendar date in the viewer's zone, as   *)
(* date-fns startOf... and endOf... return them                              *)
startOfLocalDay(date, tzMin) == date * SecondsPerDay - tzMin * 60
endOfLocalDay(date, tzMin) == startOfLocalDay(date, tzMin) + (SecondsPerDay - 1)

(* getDateRange() of the earlier page:                                      *)
(* dateStr = (d) => d.toISOString().split('T')[0]                           *)
getDateRange_toISOString(mode, selected, tzMin) ==
    LET d == getLocalDateStr(selected, tzMin)
        weekStart == startOfLocalDay(weekStartOf(d), tzMin)
        weekEnd == endOfLocalDay(weekStartOf(d) + 6, tzMin)
        monthStart == startOfLocalDay(monthStartOf(d), tzMin)
        monthEnd == endOfLocalDay(monthStartOf(d) + DaysPerMonth - 1, tzMin)
    IN CASE mode = "daily" -> [startStr |-> toISODate(selected),
                               endStr |-> toISODate(selected)]
         [] mode = "weekly" -> [startStr |-> toISODate(weekStart),
                                endStr |-> toISODate(weekEnd)]
         [] mode = "monthly" -> [startStr |-> toISODate(monthStart),
                                 endStr |-> toISODate(monthEnd)]

(* fetchAnalysis() of the earlier page, given the order in which the        *)
(* summary query returned its rows                                          *)
fetchAnalysis_summaryOnly(mode, selected, tzMin, summaries) ==
    LET range == getDateRange_toISOString(mode, selected, tzMin)
        validEmployeeIds == Range(employees)
        excludedIds == getExcludedUserIds
        empData == HistoricalLoop(summaries, validEmployeeIds, excludedIds, <<>>)
        dayOf(j) == toISODate(startOfLocalDay(range.startStr + j - 1, tzMin))
        secondsOn(id, date) ==
            LET rows == {s \in Range(summaries) : s.employee_id = id /\ s.date = date}
            IN IF rows = {} THEN 0 ELSE (CHOOSE s \in rows : TRUE).total_seconds
    IN SortDesc([i \in 1..Len(empData) |->
            [id |-> empData[i].id,
             totalHours |-> RoundHundredths(empData[i].seconds),
             sessionCount |-> empData[i].sessions,
             dailyBreakdown |->
                 [j \in 1..(range.endStr - range.startStr + 1) |->
                     [date |-> dayOf(j),
                      hours |-> RoundHundredths(secondsOn(empData[i].id, dayOf(j)))]],
             topApp |-> empData[i].topApp]])

(* the earlier page is opened by a viewer, or its view mode or date is set: *)
(* the effect runs fetchAnalysis()                                          *)
AnalysisPage_summaryOnly(offsets) ==
    /\ mounted \in {"none", "summaryOnly"}
    /\ mounted' = "summaryOnly"
    /\ \E tzMin \in offsets, mode \in ViewModes, selected \in SelectedChoices :
        /\ mounted = "summaryOnly" => tzMin = tz
        /\ tz' = tzMin
        /\ viewMode' = mode
        /\ selectedDate' = selected
        /\ LET range == getDateRange_toISOString(mode, selected, tzMin)
           IN \E summaries \in RowOrders(SummariesInRange(daily_summary,
                                            range.startStr, range.endStr)) :
                employeeStats' = fetchAnalysis_summaryOnly(mode, selected, tzMin, summaries)
        /\ queried' = {"employees", "daily_summary"}
    /\ UNCHANGED <<filtered, inflight>>
    /\ UNCHANGED aggVars

(* The two versions of the analysis page next to the aggregator *)
NextVariants ==
    \/ mounted = "none" /\ AppendLog
    \/ mounted = "none" /\ GET({FALSE})
    \/ mounted = "none" /\ POST_Employee({FALSE})
    \/ mounted = "none" /\ POST_Respond
    \/ run.pc # "loop" /\ AnalysisPage_mount(ViewerOffsets)
    \/ run.pc # "loop" /\ AnalysisPage_summaryOnly(ViewerOffsets)
    \/ Unmount

SpecVariants == Init /\ [][NextVariants]_vars

(* The settings page: its excludedIds state is loaded from localStorage     *)
(* when the page is opened and written back by its handlers                 *)

(* useEffect(() => { ...; setExcludedIds(getExcludedUserIds()) }, []) *)
SettingsPage_mount ==
    /\ ~settingsPage.mounted
    /\ settingsPage' = [mounted |-> TRUE, excludedIds |-> getExcludedUserIds]
    /\ UNCHANGED <<employees, activity_logs, daily_summary, localStorage,
                   run, runNo, prevRun, response, runs>>
    /\ UNCHANGED pageVars

(* the tab of the settings page is closed *)
SettingsPage_unmount ==
    /\ settingsPage.mounted
    /\ settingsPage' = NoSettingsPage
    /\ UNCHANGED <<employees, activity_logs, daily_summary, localStorage,
                   run, runNo, prevRun, response, runs>>
    /\ UNCHANGED pageVars

(* handleAddExclude(), newExcludeId being id *)
handleAddExclude(id) ==
    /\ settingsPage.mounted
    /\ IF id \in Range(settingsPage.excludedIds)
       THEN UNCHANGED <<settingsPage, localStorage>>
       ELSE LET updated == Append(settingsPage.excludedIds, id)
            IN /\ settingsPage' = [settingsPage EXCEPT !.excludedIds = updated]
               /\ localStorage' = updated
    /\ UNCHANGED <<employees, activity_logs, daily_summary,
                   run, runNo, prevRun, response, runs>>
    /\ UNCHANGED pageVars

(* onClick of the Ban button in the row of employee id, rendered when       *)
(* !excludedIds.includes(employee.id)                                       *)
Ban_onClick(id) ==
    /\ settingsPage.mounted
    /\ id \in Range(employees)
    /\ id \notin Range(settingsPage.excludedIds)
    /\ LET updated == Append(settingsPage.excludedIds, id)
       IN /\ settingsPage' = [settingsPage EXCEPT !.excludedIds = updated]
          /\ localStorage' = updated
    /\ UNCHANGED <<employees, activity_logs, daily_summary,
                   run, runNo, prevRun, response, runs>>
    /\ UNCHANGED pageVars

(* handleRemoveExclude(id), from the button in the row of a listed id *)
handleRemoveExclude(id) ==
    /\ settingsPage.mounted
    /\ id \in Range(settingsPage.excludedIds)
    /\ LET updated == SelectSeqBy(settingsPage.excludedIds,
                                  Range(settingsPage.excludedIds) \ {id})
       IN /\ settingsPage' = [settingsPage EXCEPT !.excludedIds = updated]
          /\ localStorage' = updated
    /\ UNCHANGED <<employees, activity_logs, daily_summary,
                   run, runNo, prevRun, response, runs>>
    /\ UNCHANGED pageVars

(* The exclusion list under the utilities and the settings page *)
NextSettings ==
    \/ addExcludedUserId
    \/ removeExcludedUserId
    \/ SettingsPage_mount
    \/ SettingsPage_unmount
    \/ \E id \in ExcludeChoices : handleAddExclude(id)
    \/ \E id \in Range(employees) : Ban_onClick(id)
    \/ \E id \in ExcludeChoices \cup Range(employees) : handleRemoveExclude(id)

SpecSettings == Init /\ [][NextSettings]_vars

(* Records around midnight of the reporting timezone between day 6 and day *)
(* 7: the last whole second of day 6, half a second later, the first       *)
(* instant of day 7, and one at 10:00 of day 7                             *)
BoundaryLogChoices ==
    { [Later(Raw(21, EmpA, "Chrome", 600, 6), 14 * 3600 - 1) EXCEPT !.end_time = Null],
      [Later(Raw(22, EmpA, "Slack", 600, 6), 14 * 3600 - 1) EXCEPT !.start_ms = 500,
                                                                  !.end_time = Null],
      [Later(Raw(23, EmpA, "Idle", 600, 6), 14 * 3600) EXCEPT !.end_time = Null],
      Raw(24, EmpA, "Chrome", 1200, 7) }

(* the collecting agent appends a record that starts around midnight *)
AppendBoundaryLog ==
    /\ Cardinality(activity_logs) < MaxLogs
    /\ \E l \in BoundaryLogChoices \ activity_logs : activity_logs' = activity_logs \cup {l}
    /\ UNCHANGED <<employees, daily_summary, localStorage, settingsPage, run, runNo, prevRun, response, runs>>
    /\ UNCHANGED pageVars

(* The aggregator over records around midnight *)
NextWindows ==
    \/ AppendBoundaryLog
    \/ POST_Begin({FALSE})
    \/ POST_Employee({FALSE})
    \/ POST_Respond

SpecWindows == Init /\ [][NextWindows]_vars

(* The page's fetches when a new one may start before the earlier ones have *)
(* resolved; the tables and the exclusion list are at rest                  *)
NextRace ==
    \/ AnalysisPage_open({330})
    \/ fetchAnalysis_callWithin(MaxOverlap)
    \/ fetchAnalysis_readExcluded
    \/ fetchAnalysis_resolve
    \/ Unmount

SpecRace == InitFresh /\ [][NextRace]_vars

-----------------------------------------------------------------------------
(* Properties *)

(* the (employee_id, date) row of a table *)
RowFor(table, emp, date) ==
    CHOOSE r \in table : r.employee_id = emp /\ r.date = date

(* the raw records of an employee whose start_time lies in the day window *)
RecordsOf(emp, date) ==
    {l \in activity_logs : /\ l.employee_id = emp
                           /\ l.start_time >= startOfDay(date)
                           /\ lte_start_time(l, endOfDay(date))}

(* the raw records have not changed since the current run began *)
LogsUnchanged == run.startLen = Cardinality(activity_logs)

(* the current step of the run wrote the row of employee run.emps[run.i] *)
WroteStep == run.pc = "loop" /\ run'.pc = "loop" /\ run'.wrote # run.wrote

Excluded == {localStorage[i] : i \in 1..Len(localStorage)}
Valid == {employees[i] : i \in 1..Len(employees)}

(* records the ignore policy keeps: duration at most 7200 *)
KeptRecords(recs) ==
    {l \in recs : l.duration_seconds = Null \/ l.duration_seconds <= 7200}

(* sum of the durations of the kept records, a negative or missing duration *)
(* counting as zero                                                         *)
RECURSIVE ZeroFlooredTotal(_)
ZeroFlooredTotal(recs) ==
    IF recs = {} THEN 0
    ELSE LET l == CHOOSE x \in recs : TRUE
             d == l.duration_seconds
         IN (IF d = Null \/ d < 0 \/ d > 7200 THEN 0 ELSE d)
            + ZeroFlooredTotal(recs \ {l})

C2_FullOverwrite ==
    /\ [](\A r1, r2 \in daily_summary :
            (r1.employee_id = r2.employee_id /\ r1.date = r2.date) => r1 = r2)
    /\ [][WroteStep =>
            LET emp == run.emps[run.i]
            IN {r \in daily_summary' : r.employee_id = emp /\ r.date = run.targetDate}
               = {Summarize(emp, run.targetDate,
                            RowsById(RecordsOf(emp, run.targetDate)), runNo)}]_vars

C2_Witness ==
    /\ run.overwrote # {}
    /\ runNo = 2
    /\ \E r \in daily_summary : r.employee_id \in run.overwrote /\ r.updated_at = 2

(* C3: session_count of a written row is the number of the employee's      *)
(* records of that day with duration at most 7200.                         *)
C3_SessionCountKept ==
    (run.pc \in {"loop", "done"} /\ LogsUnchanged)
    => \A e \in run.wrote :
          RowFor(daily_summary, e, run.targetDate).session_count
          = Cardinality(KeptRecords(RecordsOf(e, run.targetDate)))

(* C4: a run writes no row for an employee none of whose records of the    *)
(* day is kept.                                                            *)
C4_NoRowWithoutKept ==
    (run.pc \in {"loop", "done"} /\ LogsUnchanged)
    => \A e \in run.wrote : KeptRecords(RecordsOf(e, run.targetDate)) # {}

StatIds == {employeeStats[i].id : i \in 1..Len(employeeStats)}

(* the page's date range contains today *)
RangeHasToday ==
    LET range == getDateRange(viewMode, selectedDate, tz)
    IN range.startStr <= getTodayStr(tz) /\ range.endStr >= getTodayStr(tz)

(* the report keeps only valid, not excluded employees, and every such     *)
(* employee with a record today when the range contains today              *)
ReportKeepsValidNotExcluded ==
    mounted = "analysis" =>
        /\ StatIds \subseteq (Valid \ Excluded)
        /\ RangeHasToday =>
             \A e \in Valid \ Excluded :
                RecordsOf(e, getTodayStr(tz)) # {} => e \in StatIds

C7_NonPositiveAddsZero ==
    (run.pc \in {"loop", "done"} /\ LogsUnchanged)
    => \A e \in run.wrote :
          RowFor(daily_summary, e, run.targetDate).total_seconds
          = ZeroFlooredTotal(RecordsOf(e, run.targetDate))

(* C8: when a run is over, every employee whose fetch and upsert did not   *)
(* fail is written as in a run without failures, and the response is a     *)
(* success.                                                                *)
C8_OnlyFailedSkipped ==
    (run.pc = "done" /\ run.emps # <<>>)
    => /\ response.status = 200
       /\ response.success
       /\ LogsUnchanged =>
            \A e \in Range(run.emps) \ run.failed :
               LET recs == RecordsOf(e, run.targetDate)
               IN IF recs = {} THEN e \notin run.wrote
                  ELSE /\ e \in run.wrote
                       /\ Summarize(e, run.targetDate, RowsById(recs), runNo)
                          \in daily_summary
                       /\ \E k \in 1..Len(response.results) :
                             response.results[k].employee = e

C8_Witness ==
    /\ run.pc = "done"
    /\ LogsUnchanged
    /\ run.failed = {EmpA}
    /\ run.wrote = {EmpB}
    /\ RecordsOf(EmpA, run.targetDate) # {}

RECURSIVE StoredSeconds(_)
StoredSeconds(rows) ==
    IF rows = {} THEN 0
    ELSE LET r == CHOOSE x \in rows : TRUE
         IN r.total_seconds + StoredSeconds(rows \ {r})

(* seconds of today's records as the live slice attributes them *)
RECURSIVE LiveSeconds(_)
LiveSeconds(recs) ==
    IF recs = {} THEN 0
    ELSE LET l == CHOOSE x \in recs : TRUE
             d == l.duration_seconds
         IN (IF d = Null \/ d <= 0 \/ d > 7200 THEN 0 ELSE d) + LiveSeconds(recs \ {l})

(* totalHours, in hundredths, the page shows for an employee (0: no entry) *)
ShownHundredths(e) ==
    IF e \in StatIds
    THEN employeeStats[CHOOSE i \in 1..Len(employeeStats) : employeeStats[i].id = e].totalHours
    ELSE 0

Abs(x) == IF x < 0 THEN 0 - x ELSE x

(* C10: in the weekly report of the week whose last day is today, an       *)
(* employee's totalHours is within 0.01 h of the stored hours of the six   *)
(* days before today plus today's live hours.                              *)
C10_WeeklyTotal ==
    (mounted = "analysis" /\ viewMode = "weekly")
    => LET today == getTodayStr(tz)
       IN \A e \in Valid \ Excluded :
            LET stored == StoredSeconds({r \in daily_summary :
                              /\ r.employee_id = e
                              /\ r.date >= today - 6 /\ r.date <= today - 1})
                live == LiveSeconds(RecordsOf(e, today))
            IN Abs(36 * ShownHundredths(e) - (stored + live)) <= 36

(* today's calendar date in the reporting timezone, UTC+05:30 *)
ReportingToday == (Now + IST_OFFSET_SECONDS) \div SecondsPerDay

(* an employee's stored rows with date in from..to *)
StoredRows(e, from, to) ==
    {r \in daily_summary : r.employee_id = e /\ r.date >= from /\ r.date <= to}

(* C11: when the page's range ends before today in the reporting timezone, *)
(* the report has selected from no raw records and shows, for every valid   *)
(* and not excluded employee, the hours of its stored rows in [start, end]. *)
C11_StoreOnlyBeforeToday ==
    LET range == getDateRange(viewMode, selectedDate, tz)
    IN (mounted = "analysis" /\ range.endStr < ReportingToday)
       => /\ "activity_logs" \notin queried
          /\ StatIds \subseteq (Valid \ Excluded)
          /\ \A e \in Valid \ Excluded :
                LET rows == StoredRows(e, range.startStr, range.endStr)
                IN /\ e \in StatIds <=> rows # {}
                   /\ ShownHundredths(e) = RoundHundredths(StoredSeconds(rows))

(* C12: a report operation (the fetch at mount, a fetch after a change of   *)
(* view or date, an auto-refresh) leaves the rows of daily_summary as they  *)
(* were.                                                                    *)
C12_ReportWritesNothing ==
    [][mounted' = "analysis" => daily_summary' = daily_summary]_vars

C12_Witness ==
    /\ mounted = "analysis"
    /\ viewMode = "daily"
    /\ "activity_logs" \in queried
    /\ employeeStats # <<>>
    /\ \A r \in daily_summary : r.date # getTodayStr(tz)

(* the entry of the page's stats for an employee in StatIds *)
StatOf(e) == employeeStats[CHOOSE i \in 1..Len(employeeStats) : employeeStats[i].id = e]

(* seconds the live slice attributes to an app of an employee today *)
LiveAppSeconds(e, app, today) ==
    LiveSeconds({l \in RecordsOf(e, today) : l.app_name = app})

(* C13: for an employee with one stored row in the days of the range before *)
(* today and with records today, sessionCount is the stored count plus the  *)
(* number of today's records, and topApp is the top app of the slice whose  *)
(* top app has more seconds.                                                *)
C13_MergedCountAndTopApp ==
    (mounted = "analysis" /\ RangeHasToday)
    => LET range == getDateRange(viewMode, selectedDate, tz)
           today == getTodayStr(tz)
       IN \A e \in Valid \ Excluded :
            LET hist == StoredRows(e, range.startStr, today - 1)
                live == RecordsOf(e, today)
            IN (Cardinality(hist) = 1 /\ live # {})
               => LET h == CHOOSE r \in hist : TRUE
                  IN /\ e \in StatIds
                     /\ StatOf(e).sessionCount = h.session_count + Cardinality(live)
                     /\ \A app \in Apps :
                          /\ (\A other \in Apps \ {app} :
                                LiveAppSeconds(e, app, today) > LiveAppSeconds(e, other, today))
                          /\ LiveAppSeconds(e, app, today) > h.top_app_seconds
                          => StatOf(e).topApp = app
                     /\ (\A app \in Apps : h.top_app_seconds > LiveAppSeconds(e, app, today))
                          => StatOf(e).topApp = h.top_app

(* C14: in a weekly or monthly report every entry's dailyBreakdown has one  *)
(* element per day of the range, in order, whose hours are the employee's   *)
(* stored hours of that day for a day before today, the live hours for      *)
(* today, and 0 for a day after today.                                      *)
C14_DailyBreakdown ==
    (mounted = "analysis" /\ viewMode \in {"weekly", "monthly"})
    => LET range == getDateRange(viewMode, selectedDate, tz)
           today == getTodayStr(tz)
       IN \A i \in 1..Len(employeeStats) :
            LET e == employeeStats[i].id
                b == employeeStats[i].dailyBreakdown
            IN /\ Len(b) = range.endStr - range.startStr + 1
               /\ \A j \in 1..Len(b) :
                    /\ b[j].date = range.startStr + j - 1
                    /\ b[j].hours =
                         IF b[j].date = today
                         THEN RoundHundredths(LiveSeconds(RecordsOf(e, today)))
                         ELSE IF b[j].date < today
                         THEN RoundHundredths(StoredSeconds(StoredRows(e, b[j].date, b[j].date)))
                         ELSE 0

(* the valid, not excluded employees with activity in the page's range: a   *)
(* stored row on a day of the range before today, or a raw record today     *)
(* when the range contains today                                            *)
QualifyingIds ==
    LET range == getDateRange(viewMode, selectedDate, tz)
        today == getTodayStr(tz)
        lastStored == IF range.endStr < today THEN range.endStr ELSE today - 1
    IN {e \in Valid \ Excluded :
          \/ StoredRows(e, range.startStr, lastStored) # {}
          \/ RangeHasToday /\ RecordsOf(e, today) # {}}

(* C15: the report has exactly one entry for every employee with activity   *)
(* in the range, none for anybody else, and is sorted by totalHours in      *)
(* non-increasing order.                                                    *)
C15_OneEntryPerEmployeeSorted ==
    mounted = "analysis"
    => /\ StatIds = QualifyingIds
       /\ \A i, j \in 1..Len(employeeStats) :
             employeeStats[i].id = employeeStats[j].id => i = j
       /\ \A i \in 1..(Len(employeeStats) - 1) :
             employeeStats[i].totalHours >= employeeStats[i + 1].totalHours

(* the calendar date of instant t in the reporting timezone *)
ReportingDate(t) == (t + IST_OFFSET_SECONDS) \div SecondsPerDay

(* C16: a trigger without a date (POST without body, or GET) handled at     *)
(* instant t runs for the calendar date of t in the reporting timezone.     *)
C16_DefaultIsReportingToday ==
    [][\A t \in RequestInstants, empError \in BOOLEAN :
          (POST_Request(Null, t, empError) \/ POST_Request(toISODate(t), t, empError))
          => run'.targetDate = ReportingDate(t)]_vars

(* C17: the deletion of an employee leaves every row of daily_summary, the  *)
(* rows of the deleted employee included, as it was.                        *)
C17_DeleteKeepsSummaries ==
    [][employees' # employees => daily_summary' = daily_summary]_vars

(* sum of min(duration, 7200) over a set of records *)
RECURSIVE CappedTotal(_)
CappedTotal(recs) ==
    IF recs = {} THEN 0
    ELSE LET l == CHOOSE x \in recs : TRUE
         IN (IF l.duration_seconds > 7200 THEN 7200 ELSE l.duration_seconds)
            + CappedTotal(recs \ {l})

(* the records of an employee that start on a UTC calendar day *)
RecordsOfUtcDay(emp, date) ==
    {l \in activity_logs : l.employee_id = emp /\ l.start_time \div 86400 = date}

(* C18: under the cap policy every record of the employee-day adds          *)
(* min(duration, 7200) to total_seconds and to its app's seconds and counts *)
(* in session_count; top_app_seconds is the largest app sum and top_app an  *)
(* app with that sum; Chrome 3600, Slack 1800, Idle 9000 give 12600, 3,     *)
(* Idle, 7200; and the first filterActivityLogs hands on every record with  *)
(* min(duration, 7200).                                                     *)
C18_CapPolicy ==
    /\ [][\A r \in daily_summary' \ daily_summary :
            LET recs == RecordsOfUtcDay(r.employee_id, r.date)
                ofApp(a) == {l \in recs : l.app_name = a}
            IN /\ r.total_seconds = CappedTotal(recs)
               /\ r.session_count = Cardinality(recs)
               /\ \A a \in Apps : CappedTotal(ofApp(a)) <= r.top_app_seconds
               /\ CappedTotal(ofApp(r.top_app)) = r.top_app_seconds
               /\ {<<l.app_name, l.duration_seconds>> : l \in recs}
                    = {<<"Chrome", 3600>>, <<"Slack", 1800>>, <<"Idle", 9000>>}
                  /\ Cardinality(recs) = 3
                  => /\ r.total_seconds = 12600
                     /\ r.session_count = 3
                     /\ r.top_app = "Idle"
                     /\ r.top_app_seconds = 7200]_vars
    /\ [][(mounted = "none" /\ mounted' = "caller")
           => /\ Len(filtered'.out) = Cardinality(activity_logs)
              /\ \A i \in 1..Len(filtered'.out) :
                   \E l \in activity_logs :
                      /\ l.id = filtered'.out[i].id
                      /\ filtered'.out[i].duration_seconds
                         = (IF l.duration_seconds > 7200 THEN 7200
                            ELSE l.duration_seconds)]_vars

C18_Witness ==
    /\ \E r \in daily_summary :
          /\ r.total_seconds = 12600 /\ r.session_count = 3
          /\ r.top_app = "Idle" /\ r.top_app_seconds = 7200
    /\ mounted = "caller"
    /\ \E i \in 1..Len(filtered.out) :
          filtered.out[i].app_name = "Idle" /\ filtered.out[i].duration_seconds = 7200

(* the valid employees with activity in the range of a request, the ids of  *)
(* a list aside: a stored row on a day of the range before today, or a raw  *)
(* record today when the range contains today                               *)
ActiveIds(mode, selected, tzMin, list) ==
    LET range == getDateRange(mode, selected, tzMin)
        today == getTodayStr(tzMin)
        hasToday == range.startStr <= today /\ range.endStr >= today
        lastStored == IF range.endStr < today THEN range.endStr ELSE today - 1
    IN {e \in Valid \ Range(list) :
          \/ StoredRows(e, range.startStr, lastStored) # {}
          \/ hasToday /\ RecordsOf(e, today) # {}}

(* a call in flight resolves and leaves the stats of the ids in shown *)
Resolves(q, shown) ==
    /\ q \in inflight
    /\ q.awaiting = "queries"
    /\ inflight' = inflight \ {q}
    /\ mounted' = "analysis"
    /\ {employeeStats'[i].id : i \in 1..Len(employeeStats')} = shown

(* C19 as stated: when a fetch resolves, the report hides exactly the ids   *)
(* that were on the persisted exclusion list when that fetch was called     *)
C19_ListAtStart ==
    [][\A q \in inflight :
          (q.awaiting = "queries" /\ inflight' = inflight \ {q} /\ mounted' = "analysis")
          => Resolves(q, ActiveIds(q.mode, q.selected, tz, q.atCall))]_vars

(* C19: when a fetch resolves, the report hides exactly the ids that were   *)
(* on the persisted exclusion list when that fetch read it, after its       *)
(* employees query: it has no entry for an id added before that read and an *)
(* entry for every active employee removed before it, whatever was added,   *)
(* removed or read earlier or later.                                        *)
C19_FreshExclusions ==
    [][\A q \in inflight :
          (q.awaiting = "queries" /\ inflight' = inflight \ {q} /\ mounted' = "analysis")
          => Resolves(q, ActiveIds(q.mode, q.selected, tz, q.atRead))]_vars

C19_Witness ==
    /\ mounted = "analysis"
    /\ inflight = {}
    /\ viewMode = "weekly"
    /\ localStorage = <<>>
    /\ StatIds = {EmpB}
    /\ queried = {"employees", "daily_summary", "activity_logs"}

(* a step in which caller id upserts the summary it computed *)
Writes(id) == runs[id].pc = "write" /\ runs'[id].pc = "read"

(* C20: when two runs for the same date overlap, the store never holds two  *)
(* rows for a key, only an upsert of a run changes it, and after an upsert  *)
(* the row of the key is, in all fields, the summary the writing run        *)
(* computed, every other row being as before.                               *)
C20_LastWriterWins ==
    /\ [](\A r1, r2 \in daily_summary :
            (r1.employee_id = r2.employee_id /\ r1.date = r2.date) => r1 = r2)
    /\ [][daily_summary' # daily_summary => \E id \in RunIds : Writes(id)]_vars
    /\ [][\A id \in RunIds :
            Writes(id)
            => LET p == runs[id].pending
                   ofKey(t) == {r \in t : r.employee_id = p.employee_id /\ r.date = p.date}
               IN /\ ofKey(daily_summary') = {p}
                  /\ daily_summary' \ {p} = daily_summary \ ofKey(daily_summary)]_vars

C20_Witness ==
    /\ \A id \in RunIds : runs[id].pc = "done" /\ runs[id].overlapped
    /\ runs["cron"].targetDate = runs["sync"].targetDate
    /\ \E k1 \in 1..Len(runs["cron"].results), k2 \in 1..Len(runs["sync"].results) :
          /\ runs["cron"].results[k1].employee = EmpA
          /\ runs["sync"].results[k2].employee = EmpA
          /\ runs["cron"].results[k1].sessions = 1
          /\ runs["sync"].results[k2].sessions = 2
          /\ RowFor(daily_summary, EmpA, 7).session_count = 1
          /\ RowFor(daily_summary, EmpA, 7).updated_at = runs["cron"].stamp

(* seconds the aggregator attributes to an app over a set of records: the  *)
(* sum of the records' durations, a missing duration counting as zero      *)
RECURSIVE AppSeconds(_, _)
AppSeconds(recs, app) ==
    LET mine == {l \in recs : l.app_name = app}
    IN IF mine = {} THEN 0
       ELSE LET l == CHOOSE x \in mine : TRUE
            IN (IF l.duration_seconds = Null THEN 0 ELSE l.duration_seconds)
               + AppSeconds(recs \ {l}, app)

(* position of the first record of an app in the order of iteration *)
FirstAt(order, app) ==
    CHOOSE i \in 1..Len(order) :
        /\ order[i].app_name = app
        /\ \A j \in 1..(i - 1) : order[j].app_name # app

(* C21: the row a run writes for an employee with kept records names as    *)
(* top_app an app of the kept records of that employee and day whose       *)
(* summed seconds are the largest, with                                    *)
(* top_app_seconds that sum; among apps with the largest sum it is the one *)
(* met first in the order of iteration.                                    *)
C21_TopAppLargestSum ==
    [][WroteStep =>
        LET emp == run.emps[run.i]
            kept == KeptRecords(RecordsOf(emp, run.targetDate))
            order == RowsById(kept)
            row == RowFor(daily_summary', emp, run.targetDate)
        IN kept # {} =>
           /\ row.top_app \in {l.app_name : l \in kept}
           /\ row.top_app_seconds = AppSeconds(kept, row.top_app)
           /\ \A l \in kept :
                /\ AppSeconds(kept, l.app_name) <= row.top_app_seconds
                /\ AppSeconds(kept, l.app_name) = row.top_app_seconds
                     => FirstAt(order, row.top_app) <= FirstAt(order, l.app_name)]_vars

(* the end of a record's activity: end_time, start_time when it is missing *)
EndOf(l) == IF l.end_time = Null THEN l.start_time ELSE l.end_time

(* the first and last activity the route's loop computes from the fetched  *)
(* rows in a given order                                                   *)
TimesOf(order) ==
    LET acc == LogLoop(order, [totalSeconds |-> 0, firstActivityTime |-> Null,
                               lastActivityTime |-> Null, appMap |-> <<>>])
    IN <<acc.firstActivityTime, acc.lastActivityTime>>

(* C22: in the row a run writes, first_activity is the least start_time    *)
(* and last_activity the greatest end (end_time, else start_time) of the   *)
(* kept records of that employee and day, both absent when no record is    *)
(* kept, and the loop computes the same two values from every order of the *)
(* fetched rows.                                                           *)
C22_FirstLastOverKept ==
    [][WroteStep =>
        LET emp == run.emps[run.i]
            recs == RecordsOf(emp, run.targetDate)
            kept == KeptRecords(recs)
            row == RowFor(daily_summary', emp, run.targetDate)
        IN /\ IF kept = {}
              THEN row.first_activity = Null /\ row.last_activity = Null
              ELSE /\ \E l \in kept : row.first_activity = l.start_time
                   /\ \A l \in kept : row.first_activity <= l.start_time
                   /\ \E l \in kept : row.last_activity = EndOf(l)
                   /\ \A l \in kept : row.last_activity >= EndOf(l)
           /\ \A order \in RowOrders(recs) :
                TimesOf(order) = <<row.first_activity, row.last_activity>>]_vars

(* a run wrote the row of an employee with an ignored record that starts   *)
(* before and ends after the employee's kept record                        *)
C22_Witness ==
    /\ run.pc = "done"
    /\ LogsUnchanged
    /\ EmpA \in run.wrote
    /\ \E skipped, k \in RecordsOf(EmpA, run.targetDate) :
          /\ skipped \notin KeptRecords({skipped})
          /\ k \in KeptRecords({k})
          /\ skipped.start_time < k.start_time
          /\ EndOf(skipped) > EndOf(k)
          /\ RowFor(daily_summary, EmpA, run.targetDate).first_activity = k.start_time
          /\ RowFor(daily_summary, EmpA, run.targetDate).last_activity = EndOf(k)

(* the calendar date the viewer selected: selectedDate in the viewer's zone *)
AnchorDate == getLocalDateStr(selectedDate, tz)

(* a range is the period of a view mode around an anchor date *)
IsPeriodOf(range, mode, anchor) ==
    /\ range.startStr <= anchor /\ anchor <= range.endStr
    /\ mode = "daily" => range.startStr = anchor /\ range.endStr = anchor
    /\ mode = "weekly" => /\ range.endStr = range.startStr + 6
                          /\ (range.startStr - 1) % 7 = 0
    /\ mode = "monthly" => /\ (range.startStr - 1) % DaysPerMonth = 0
                           /\ range.endStr = range.startStr + DaysPerMonth - 1

(* C23: on both versions of the analysis page the range of getDateRange()  *)
(* contains the selected calendar date and is that day, its Monday to      *)
(* Sunday week, or its calendar month, for every viewer offset.            *)
C23_RangeIsPeriodOfAnchor ==
    /\ mounted = "analysis"
         => IsPeriodOf(getDateRange(viewMode, selectedDate, tz), viewMode, AnchorDate)
    /\ mounted = "summaryOnly"
         => IsPeriodOf(getDateRange_toISOString(viewMode, selectedDate, tz),
                       viewMode, AnchorDate)

(* the ids an add or remove operation may name *)
ListIds == ExcludeChoices \cup Range(employees)

(* an add of id: the utility, the page's add handler or its Ban button *)
AddOf(id) == Call_addExcludedUserId(id) \/ handleAddExclude(id) \/ Ban_onClick(id)

(* a remove of id: the utility or the page's remove handler *)
RemoveOf(id) == Call_removeExcludedUserId(id) \/ handleRemoveExclude(id)

(* C24: the persisted list never holds an id twice; after an add of x it   *)
(* contains x, after a remove of x it does not, and an add of an id that   *)
(* is already on the persisted list leaves the list as it was.             *)
C24_ListIsASet ==
    /\ [](\A i, j \in 1..Len(localStorage) : localStorage[i] = localStorage[j] => i = j)
    /\ [][\A id \in ListIds :
            /\ AddOf(id) => id \in Range(localStorage')
            /\ RemoveOf(id) => id \notin Range(localStorage')
            /\ (AddOf(id) /\ id \in Range(localStorage)) => localStorage' = localStorage]_vars

(* consecutive target dates around the modelled records *)
WindowDates == 5..8

(* the target dates whose run selects a record *)
DatesSelecting(l) ==
    {d \in WindowDates : l \in Range(SelectLogs(activity_logs, l.employee_id, d))}

(* C25: every raw record is selected by the run of exactly one of the      *)
(* consecutive target dates, whatever the milliseconds of its start_time.  *)
C25_WindowsPartition ==
    \A l \in activity_logs : Cardinality(DatesSelecting(l)) = 1

(* C26: in a weekly or monthly report whose range contains today, an       *)
(* employee's hours are the stored hours of the days of the range before   *)
(* today plus the live hours of today; a row stored for today adds         *)
(* nothing, and the employee has an entry iff one of the two is present.   *)
C26_EachDayOnce ==
    (mounted = "analysis" /\ viewMode \in {"weekly", "monthly"} /\ RangeHasToday)
    => LET range == getDateRange(viewMode, selectedDate, tz)
           today == getTodayStr(tz)
       IN \A e \in Valid \ Excluded :
            LET hist == StoredRows(e, range.startStr, today - 1)
                live == RecordsOf(e, today)
            IN /\ e \in StatIds <=> (hist # {} \/ live # {})
               /\ ShownHundredths(e)
                  = RoundHundredths(StoredSeconds(hist)) + RoundHundredths(LiveSeconds(live))

(* C27: in the daily report of today, the entry of a valid, not excluded   *)
(* employee with records today shows the hours, the session count and the  *)
(* top app of the row the aggregator writes for today from the same        *)
(* records.                                                                *)
C27_LiveEqualsSummary ==
    (mounted = "analysis" /\ viewMode = "daily"
        /\ getLocalDateStr(selectedDate, tz) = getTodayStr(tz))
    => LET today == getTodayStr(tz)
       IN \A e \in Valid \ Excluded :
            LET logs == SelectLogs(activity_logs, e, today)
                row == Summarize(e, today, logs, 0)
            IN ~SkipsEmployee(logs)
               => /\ e \in StatIds
                  /\ StatOf(e).totalHours = RoundHundredths(row.total_seconds)
                  /\ StatOf(e).sessionCount = row.session_count
                  /\ StatOf(e).topApp = row.top_app

(* C28: every row the aggregator writes has                                *)
(* 0 <= top_app_seconds <= total_seconds.                                  *)
C28_TopAppWithinTotal ==
    [][WroteStep =>
        LET row == RowFor(daily_summary', run.emps[run.i], run.targetDate)
        IN 0 <= row.top_app_seconds /\ row.top_app_seconds <= row.total_seconds]_vars

(* C29: a step of an aggregation run (the request, an iteration of the     *)
(* employee loop with or without an error, the response) leaves the        *)
(* employees, the raw records and every daily_summary row of a date other  *)
(* than the run's target date as they were.                                *)
C29_RunTouchesOnlyTargetDate ==
    [][run' # run =>
        /\ employees' = employees
        /\ activity_logs' = activity_logs
        /\ {r \in daily_summary' : r.date # run'.targetDate}
           = {r \in daily_summary : r.date # run'.targetDate}]_vars

(* a run for day 7 with a failed employee has written a row next to the    *)
(* row an earlier run left for day 6                                       *)
C29_Witness ==
    /\ run.pc = "done"
    /\ run.targetDate = 7
    /\ run.failed # {}
    /\ \E r \in daily_summary : r.date = 7 /\ r.updated_at = runNo
    /\ \E r \in daily_summary : r.date = 6 /\ r.updated_at < runNo

(* the stats a fetch of the page's current view mode and date yields *)
StatsOfCurrentPeriod ==
    {fetchAnalysisFrom(viewMode, selectedDate, tz, summaries, localStorage) :
        summaries \in RowOrders(fetchedSummaries(viewMode, selectedDate, tz))}

(* C30: when no fetch of the page is pending, the stats shown are those of *)
(* the view mode and date requested last.                                  *)
C30_LatestRequestShown ==
    (mounted = "analysis" /\ inflight = {}) => employeeStats \in StatsOfCurrentPeriod

====
